---- MODULE Spec2Model ----
(***************************************************************************)
(* Provisioning-readiness state machine of devpod-provider-gcloud:         *)
(* CreateCmd.Run (cmd/create.go), CommandCmd.Run (cmd/command.go) and the  *)
(* gcloud.Client facade (pkg/gcloud).                                      *)
(*                                                                         *)
(* Strings of the program are modelled as tuples of symbols; a symbol is   *)
(* one character ("/", "-", " ") or a run of characters without "/", "-"   *)
(* or blanks ("projects", "sn").  Go's zero-based indices are kept.        *)
(***************************************************************************)
EXTENDS Integers, Sequences, FiniteSets, TLC

(* ----------------------------- strings -------------------------------- *)

\* strings.Contains(s, sub)
Contains(s, sub) ==
    \E k \in 0..(Len(s) - Len(sub)) : SubSeq(s, k + 1, k + Len(sub)) = sub

SetMax(S) == CHOOSE m \in S : \A x \in S : x <= m

\* strings.LastIndex(s, c): zero-based index of the last c in s, -1 if none
LastIndex(s, c) ==
    LET P == {k \in 1..Len(s) : s[k] = c}
    IN IF P = {} THEN -1 ELSE SetMax(P) - 1

\* parts := strings.Split(s, "/"); parts[len(parts)-1]
LastPart(s) == SubSeq(s, LastIndex(s, "/") + 2, Len(s))

\* zone[:strings.LastIndex(zone, "-")]: a slice with a negative bound panics
RegionOfPanics(zone) == LastIndex(zone, "-") < 0
RegionOf(zone) == SubSeq(zone, 1, LastIndex(zone, "-"))

\* strings.TrimSpace on a tuple of symbols: blanks, tabs and line ends go
Whitespace == {" ", "\t", "\n"}
RECURSIVE TrimLeft(_)
TrimLeft(s) == IF Len(s) > 0 /\ s[1] \in Whitespace THEN TrimLeft(Tail(s)) ELSE s
RECURSIVE TrimRight(_)
TrimRight(s) ==
    IF Len(s) > 0 /\ s[Len(s)] \in Whitespace
    THEN TrimRight(SubSeq(s, 1, Len(s) - 1)) ELSE s
TrimSpace(s) == TrimRight(TrimLeft(s))

\* strings.ToUpper, symbol by symbol
ToUpperSym(c) ==
    CASE c \in {"running", "Running"} -> "RUNNING"
      [] c \in {"stopping", "Stopping"} -> "STOPPING"
      [] c \in {"suspending", "Suspending"} -> "SUSPENDING"
      [] c \in {"repairing", "Repairing"} -> "REPAIRING"
      [] c \in {"provisioning", "Provisioning"} -> "PROVISIONING"
      [] c \in {"staging", "Staging"} -> "STAGING"
      [] c \in {"terminated", "Terminated"} -> "TERMINATED"
      [] c \in {"suspended", "Suspended"} -> "SUSPENDED"
      [] c \in {"unknown", "Unknown"} -> "UNKNOWN"
      [] OTHER -> c
ToUpper(s) == [k \in 1..Len(s) |-> ToUpperSym(s[k])]

\* strings.Split(s, "/"): the parts between the slashes; a part may be empty
RECURSIVE Split(_)
Split(s) ==
    LET P == {k \in 1..Len(s) : s[k] = "/"}
    IN IF P = {} THEN <<s>>
       ELSE LET k == CHOOSE m \in P : \A x \in P : m <= x
            IN <<SubSeq(s, 1, k - 1)>> \o Split(SubSeq(s, k + 1, Len(s)))

\* regular expressions are tuples of elements: a class matches one symbol of
\* a set, NotSlashes is the group ([^/]+)
Class(S) == [kind |-> "class", of |-> S]
Lit(c) == Class({c})
NotSlashes == [kind |-> "plus", of |-> {}]

\* the expression matches a prefix of s[k..]
RECURSIVE MatchAt(_, _, _)
MatchAt(s, pat, k) ==
    IF Len(pat) = 0 THEN TRUE
    ELSE IF k > Len(s) THEN FALSE
    ELSE IF Head(pat).kind = "plus"
    THEN s[k] # "/" /\ (MatchAt(s, Tail(pat), k + 1) \/ MatchAt(s, pat, k + 1))
    ELSE s[k] \in Head(pat).of /\ MatchAt(s, Tail(pat), k + 1)

\* Regexp.MatchString of an expression without anchors: a match anywhere
MatchString(pat, s) == \E k \in 1..Len(s) : MatchAt(s, pat, k)

\* Regexp.MatchString of an expression that begins with ^
MatchStringAnchored(pat, s) == MatchAt(s, pat, 1)

(* ------------------------------ inputs -------------------------------- *)

ZoneOK == <<"us", "-", "central1", "-", "a">>
Zones == {ZoneOK, <<"local">>}

SubnetFull == <<"projects", "/", "p", "/", "regions", "/", "r", "/", "subnetworks", "/", "sn">>
SubnetBare == <<"sn">>
Subnetworks == {<<>>, SubnetBare, <<"r", "/", "sn">>, SubnetFull, <<"other">>}

NatAll == [Mode |-> "ALL_SUBNETWORKS_ALL_IP_RANGES", Subnetworks |-> <<>>]
NatPrimary == [Mode |-> "ALL_SUBNETWORKS_ALL_PRIMARY_IP_RANGES", Subnetworks |-> <<>>]
NatListSn == [Mode |-> "LIST_OF_SUBNETWORKS", Subnetworks |-> <<SubnetFull>>]

\* the routers of the region, as ListRouters returns them one by one
RouterLists ==
    { <<>>,
      <<[Nats |-> <<>>]>>,
      <<[Nats |-> <<NatPrimary, [Mode |-> "nil", Subnetworks |-> <<SubnetFull>>]>>]>>,
      <<[Nats |-> <<>>], [Nats |-> <<NatListSn>>]>>,
      <<[Nats |-> <<NatPrimary, NatAll>>]>> }

DiskSizes == {<<"4", "0">>, <<"4", "0", "G">>}

Digits == {"0", "1", "2", "3", "4", "5", "6", "7", "8", "9"}

\* strconv.Atoi fails on the empty string and on any non-digit after the sign
AtoiFails(s) ==
    LET body == IF Len(s) > 0 /\ s[1] \in {"+", "-"} THEN Tail(s) ELSE s
    IN Len(body) = 0 \/ \E k \in 1..Len(body) : body[k] \notin Digits

ProjectP == <<"p">>
MachineIDM == <<"devpod", "-", "m1">>
MachineFolderM == <<"/", "home", "/", "u", "/", "m1">>

NetworkBare == <<"net">>


\* machine types, character by character
MachineTypeE2 == <<"e", "2", "-", "m", "e", "d", "i", "u", "m">>

\* the options of the provisioning flow: network and machine type are fixed
Options ==
    [PublicIP : BOOLEAN, Zone : Zones, Subnetwork : Subnetworks, DiskSize : DiskSizes,
     Network : {NetworkBare}, MachineType : {MachineTypeE2}, Project : {ProjectP},
     MachineID : {MachineIDM}, MachineFolder : {MachineFolderM}]

\* the options buildInstance is applied to
BuildOptions ==
    [PublicIP : BOOLEAN, Zone : Zones, Subnetwork : (Subnetworks \cup {<<"q", "/", "r", "/", "sn">>, <<"q", "/", "r", "/", "sn", "/", "x">>, <<" ", "sn", " ">>, <<"x", "/">> \o SubnetFull \o <<"/", "y">>}), DiskSize : DiskSizes,
     Network : {<<>>, NetworkBare, <<"q", "/", "net">>, <<"projects", "/", "q", "/", "global", "/", "networks", "/", "net">>, <<"q", "/", "net", "/", "x">>, <<"/", "net">>}, MachineType : { <<>>, <<"n">>, MachineTypeE2, <<"a", "2", "-", "h", "i", "g", "h", "g", "p", "u">>, <<"g", "2", "-", "s", "t", "d">>, <<"n", "1", "-", "s", "t", "d">>, <<"A", "2", "-", "h", "i", "g", "h", "g", "p", "u">>, <<"N", "1">>, <<"n", "x", "1">>, <<"x", "n", "1">>, <<"c", "2">>, <<"2", "n">> }, Project : {ProjectP},
     MachineID : {MachineIDM}, MachineFolder : {MachineFolderM}]

(* --------------------------- gcloud.Client ---------------------------- *)


\* variant: the status is upper-cased but not trimmed
TrimUpperNoTrim(raw) ==
    LET t == ToUpper(raw)
    IN IF Len(t) = 1 THEN t[1] ELSE IF Len(t) = 0 THEN "" ELSE "(several words)"

\* strings.TrimSpace(strings.ToUpper(*instance.Status))
\* A status is compared as one word: a string of several symbols is none of
\* the words Client.Status knows.
TrimUpper(raw) ==
    LET t == TrimSpace(ToUpper(raw))
    IN IF Len(t) = 1 THEN t[1] ELSE IF Len(t) = 0 THEN "" ELSE "(several words)"

\* answers of InstanceClient.Get: a failure, a 404, or an instance
GetAnswers ==
    {[kind |-> "error"], [kind |-> "notfound"]}
        \cup [kind : {"instance"}, raw : { <<"RUNNING">>, <<"running">>, <<" ", "RUNNING", " ">>, <<"STAGING">>, <<"staging", " ">>, <<"TERMINATED">>, <<" ", "terminated">>, <<"SUSPENDED">>, <<"suspended">> }]

\* variant: a 404 is returned as an error like every other failure
ClientGetStrict(a) ==
    IF a.kind \in {"error", "notfound"} THEN [isNil |-> TRUE, err |-> TRUE, raw |-> "none"]
    ELSE [isNil |-> FALSE, err |-> FALSE, raw |-> TrimUpper(a.raw)]

\* Client.Get: 404 becomes (nil, nil); any other failure is returned
ClientGet(a) ==
    IF a.kind = "error" THEN [isNil |-> TRUE, err |-> TRUE, raw |-> "none"]
    ELSE IF a.kind = "notfound" THEN [isNil |-> TRUE, err |-> FALSE, raw |-> "none"]
    ELSE [isNil |-> FALSE, err |-> FALSE, raw |-> TrimUpper(a.raw)]

\* variant: an unrecognized status counts as "not found yet"
ClientStatusLenient(a) ==
    LET g == ClientGet(a)
    IN IF g.err THEN [status |-> "NotFound", err |-> TRUE]
       ELSE IF g.isNil THEN [status |-> "NotFound", err |-> FALSE]
       ELSE IF g.raw = "RUNNING" THEN [status |-> "Running", err |-> FALSE]
       ELSE IF g.raw \in {"STOPPING", "SUSPENDING", "REPAIRING", "PROVISIONING", "STAGING"}
            THEN [status |-> "Busy", err |-> FALSE]
       ELSE IF g.raw = "TERMINATED" THEN [status |-> "Stopped", err |-> FALSE]
       ELSE [status |-> "NotFound", err |-> FALSE]

\* variant: a busy instance is reported as running
ClientStatusEager(a) ==
    LET g == ClientGet(a)
    IN IF g.err THEN [status |-> "NotFound", err |-> TRUE]
       ELSE IF g.isNil THEN [status |-> "NotFound", err |-> FALSE]
       ELSE IF g.raw \in {"RUNNING", "STOPPING", "SUSPENDING", "REPAIRING", "PROVISIONING",
                          "STAGING"}
            THEN [status |-> "Running", err |-> FALSE]
       ELSE IF g.raw = "TERMINATED" THEN [status |-> "Stopped", err |-> FALSE]
       ELSE [status |-> "NotFound", err |-> TRUE]

\* Client.Status
ClientStatus(a) ==
    LET g == ClientGet(a)
    IN IF g.err THEN [status |-> "NotFound", err |-> TRUE]
       ELSE IF g.isNil THEN [status |-> "NotFound", err |-> FALSE]
       ELSE IF g.raw = "RUNNING" THEN [status |-> "Running", err |-> FALSE]
       ELSE IF g.raw \in {"STOPPING", "SUSPENDING", "REPAIRING", "PROVISIONING", "STAGING"}
            THEN [status |-> "Busy", err |-> FALSE]
       ELSE IF g.raw = "TERMINATED" THEN [status |-> "Stopped", err |-> FALSE]
       ELSE [status |-> "NotFound", err |-> TRUE]

\* variant: a listed subnet counts only when its last part is the name
NatAppliesExact(nat, subnetName) ==
    /\ nat.Mode # "nil"
    /\ \/ nat.Mode = "ALL_SUBNETWORKS_ALL_IP_RANGES"
       \/ /\ nat.Mode = "LIST_OF_SUBNETWORKS"
          /\ \E k \in 1..Len(nat.Subnetworks) : LastPart(nat.Subnetworks[k]) = subnetName

\* one NAT of a router satisfies the subnet
NatApplies(nat, subnetName) ==
    /\ nat.Mode # "nil"
    /\ \/ nat.Mode = "ALL_SUBNETWORKS_ALL_IP_RANGES"
       \/ /\ nat.Mode = "LIST_OF_SUBNETWORKS"
          /\ \E k \in 1..Len(nat.Subnetworks) : Contains(nat.Subnetworks[k], subnetName)

RouterApplies(router, subnetName) ==
    \E n \in 1..Len(router.Nats) : NatApplies(router.Nats[n], subnetName)

\* Client.CheckCloudNAT: walks the iterator; failAt = k makes the k-th Next()
\* fail (0: never), the call after the last router returns iterator.Done
RECURSIVE CheckCloudNATFrom(_, _, _, _)
CheckCloudNATFrom(rs, failAt, subnetName, k) ==
    IF failAt = k THEN [has |-> FALSE, err |-> TRUE]
    ELSE IF k > Len(rs) THEN [has |-> FALSE, err |-> FALSE]
    ELSE IF RouterApplies(rs[k], subnetName) THEN [has |-> TRUE, err |-> FALSE]
    ELSE CheckCloudNATFrom(rs, failAt, subnetName, k + 1)

CheckCloudNAT(rs, failAt, subnetName) == CheckCloudNATFrom(rs, failAt, subnetName, 1)

(* --------------------------- cmd/create.go ---------------------------- *)

\* variant: only the full resource path is reduced to its last part
NatSubnetNameFullOnly(subnetwork) ==
    IF Contains(subnetwork, <<"/", "subnetworks", "/">>)
    THEN LastPart(subnetwork) ELSE subnetwork

\* the subnet name checkCloudNATConfiguration hands to CheckCloudNAT
NatSubnetName(subnetwork) ==
    LET s1 == IF Contains(subnetwork, <<"/", "subnetworks", "/">>)
              THEN LastPart(subnetwork) ELSE subnetwork
    IN IF Contains(s1, <<"/">>) /\ ~Contains(s1, <<"projects", "/">>)
       THEN LastPart(s1) ELSE s1

\* variant: a failed listing is reported like a missing NAT
checkCloudNATConfigurationMerged(o, rs, failAt) ==
    IF RegionOfPanics(o.Zone) THEN "panic"
    ELSE IF o.Subnetwork = <<>> THEN "err_subnet_required"
    ELSE LET r == CheckCloudNAT(rs, failAt, NatSubnetName(o.Subnetwork))
         IN IF r.err \/ ~r.has THEN "err_nat_missing" ELSE "satisfied"

\* checkCloudNATConfiguration: "panic", an error, or "satisfied".
\* The region is sliced out of the zone before the subnet is looked at.
checkCloudNATConfiguration(o, rs, failAt) ==
    IF RegionOfPanics(o.Zone) THEN "panic"
    ELSE IF o.Subnetwork = <<>> THEN "err_subnet_required"
    ELSE LET r == CheckCloudNAT(rs, failAt, NatSubnetName(o.Subnetwork))
         IN IF r.err THEN "err_nat_check"
            ELSE IF ~r.has THEN "err_nat_missing"
            ELSE "satisfied"

\* variant: a missing NAT is remedied by creating a router with one
RoutersAfterPreflightRemedy(rs, finding) ==
    IF finding = "err_nat_missing" THEN Append(rs, [Nats |-> <<NatAll>>]) ELSE rs

\* the routers of the region after checkCloudNATConfiguration returned: the
\* only call made on them is RoutersClient.List (part_000:244-247)
RoutersAfterPreflight(rs, finding) == rs

\* checkIAPFirewallRules: out is what `gcloud compute firewall-rules list`
\* did: "cmdfail", "empty" output, or a rule name ("found"); TRUE = error
checkIAPFirewallRules(out) == out # "found"

\* variant: Run returns the firewall error like the NAT error
AfterFirewallCheckAbort(fwErr) ==
    IF fwErr THEN [pc |-> "done", warn |-> TRUE] ELSE [pc |-> "build", warn |-> FALSE]

\* CreateCmd.Run after checkIAPFirewallRules returned: where the flow goes
\* and whether the warning is logged
AfterFirewallCheck(fwErr) == [pc |-> "build", warn |-> fwErr]

\* normalizeSubnetworkID slices the zone only for a non-blank subnet
normalizeSubnetworkIDPanics(o) ==
    Len(TrimSpace(o.Subnetwork)) # 0 /\ RegionOfPanics(o.Zone)

\* variant: the access config is attached in both modes
getAccessConfigAlways(o) == TRUE

\* getAccessConfig: TRUE when the "External NAT" access config is attached
getAccessConfig(o) == o.PublicIP

\* a *string: nil, or a pointer to a path
NilRef == [isNil |-> TRUE, path |-> <<>>]
Ref(path) == [isNil |-> FALSE, path |-> path]

networkPathPattern ==
    <<Lit("projects"), Lit("/"), NotSlashes, Lit("/"), Lit("global"), Lit("/"),
      Lit("networks"), Lit("/"), NotSlashes>>
subnetworkPathPattern ==
    <<Lit("projects"), Lit("/"), NotSlashes, Lit("/"), Lit("regions"), Lit("/"),
      NotSlashes, Lit("/"), Lit("subnetworks"), Lit("/"), NotSlashes>>
twoPartPattern == <<NotSlashes, Lit("/"), NotSlashes>>
threePartPattern == <<NotSlashes, Lit("/"), NotSlashes, Lit("/"), NotSlashes>>

\* fmt.Sprintf("projects/%s/global/networks/%s", project, name)
NetworkPath(project, name) ==
    <<"projects", "/">> \o project \o <<"/", "global", "/", "networks", "/">> \o name

\* fmt.Sprintf("projects/%s/regions/%s/subnetworks/%s", project, region, name)
SubnetworkPath(project, region, name) ==
    <<"projects", "/">> \o project \o <<"/", "regions", "/">> \o region
        \o <<"/", "subnetworks", "/">> \o name

normalizeNetworkID(o) ==
    IF Len(o.Network) = 0 THEN NilRef
    ELSE IF MatchString(networkPathPattern, o.Network) THEN Ref(o.Network)
    ELSE IF MatchString(twoPartPattern, o.Network)
    THEN LET s == Split(o.Network) IN Ref(NetworkPath(s[1], s[2]))
    ELSE Ref(NetworkPath(o.Project, o.Network))

\* normalizeSubnetworkID, for a zone whose slicing does not panic
normalizeSubnetworkID(o) ==
    LET sn == TrimSpace(o.Subnetwork)
    IN IF Len(sn) = 0 THEN NilRef
       ELSE IF MatchString(subnetworkPathPattern, sn) THEN Ref(sn)
       ELSE IF MatchString(threePartPattern, sn)
       THEN LET s == Split(sn) IN Ref(SubnetworkPath(s[1], s[2], s[3]))
       ELSE IF MatchString(twoPartPattern, sn)
       THEN LET s == Split(sn) IN Ref(SubnetworkPath(o.Project, s[1], s[2]))
       ELSE Ref(SubnetworkPath(o.Project, RegionOf(o.Zone), sn))

\* ^[agn][0-9]
gpuInstancePattern == <<Class({"a", "g", "n"}), Class(Digits)>>

\* variant: the pattern has lost its anchor
getMaintenancePolicyUnanchored(machineType) ==
    IF MatchString(gpuInstancePattern, machineType) THEN "TERMINATE" ELSE "MIGRATE"

getMaintenancePolicy(machineType) ==
    IF MatchStringAnchored(gpuInstancePattern, machineType) THEN "TERMINATE" ELSE "MIGRATE"

NoInstance ==
    [built |-> FALSE, AccessConfigs |-> FALSE, MetadataKeys |-> {},
     OnHostMaintenance |-> "none", Network |-> NilRef, Subnetwork |-> NilRef]

\* buildInstance: keyOK is whether ssh.GetPublicKeyBase and the base64
\* decoding of the key succeeded
buildInstance(o, keyOK) ==
    IF AtoiFails(o.DiskSize) THEN [outcome |-> "err_build", instance |-> NoInstance]
    ELSE IF ~keyOK THEN [outcome |-> "err_build", instance |-> NoInstance]
    ELSE IF normalizeSubnetworkIDPanics(o) THEN [outcome |-> "panic", instance |-> NoInstance]
    ELSE [outcome |-> "ok",
          instance |-> [built |-> TRUE,
                        AccessConfigs |-> getAccessConfig(o),
                        MetadataKeys |-> {"ssh-keys"} \cup
                            (IF ~o.PublicIP THEN {"startup-script"} ELSE {}),
                        OnHostMaintenance |-> getMaintenancePolicy(o.MachineType),
                        Network |-> normalizeNetworkID(o),
                        Subnetwork |-> normalizeSubnetworkID(o)]]

\* variant: Run waits for readiness in both modes
AfterCreateAlwaysWait(publicIP) == "poll"

\* CreateCmd.Run after client.Create returned nil (create.go:79-90): only
\* without a public IP does it wait and configure SSH
AfterCreate(publicIP) == IF ~publicIP THEN "poll" ELSE "ok"

\* variant: Run deletes the instance that never reached Running
CleanupOnWaitErrorTimeout(err) == err = "err_timeout"

\* CreateCmd.Run after waitForInstanceReady returned err (create.go:83-85):
\* TRUE would be a Client.Delete; Run only wraps the error and returns it
CleanupOnWaitError(err) == FALSE

\* filepath.Join(dir, name): one separator between the two, none after an
\* empty dir
FilepathJoin(dir, name) ==
    IF Len(dir) = 0 THEN name
    ELSE IF dir[Len(dir)] = "/" THEN dir \o name
    ELSE dir \o <<"/">> \o name

ProxyCommandWords ==
    <<"ProxyCommand", " ", "gcloud", " ", "compute", " ", "start-iap-tunnel", " ",
      "%h", " ", "%p", " ", "--listen-on-stdin", " ">>

\* variant: project and zone change places in the arguments of Sprintf
sshConfigTextSwapped(o) ==
    << <<"# DevPod GCP Provider IAP SSH Configuration">>,
       <<"Host", " ">> \o o.MachineID,
       <<"HostName", " ">> \o o.MachineID,
       <<"User", " ", "devpod">>,
       <<"IdentityFile", " ">> \o FilepathJoin(o.MachineFolder, <<"id_devpod_rsa">>),
       <<"StrictHostKeyChecking", " ", "no">>,
       <<"UserKnownHostsFile", " ", "/", "dev", "/", "null">>,
       ProxyCommandWords \o <<"--project=">> \o o.Zone \o <<" ", "--zone=">> \o o.Project
            \o <<" ", "--verbosity=warning">>,
       <<"ConnectTimeout", " ", "60">>,
       <<"ServerAliveInterval", " ", "30">>,
       <<"ServerAliveCountMax", " ", "10">>,
       <<"TCPKeepAlive", " ", "yes">> >>

\* the text configureSSHForIAP formats (create.go:373-391), line by line and
\* without the indentation of the lines
sshConfigText(o) ==
    << <<"# DevPod GCP Provider IAP SSH Configuration">>,
       <<"Host", " ">> \o o.MachineID,
       <<"HostName", " ">> \o o.MachineID,
       <<"User", " ", "devpod">>,
       <<"IdentityFile", " ">> \o FilepathJoin(o.MachineFolder, <<"id_devpod_rsa">>),
       <<"StrictHostKeyChecking", " ", "no">>,
       <<"UserKnownHostsFile", " ", "/", "dev", "/", "null">>,
       ProxyCommandWords \o <<"--project=">> \o o.Project \o <<" ", "--zone=">> \o o.Zone
            \o <<" ", "--verbosity=warning">>,
       <<"ConnectTimeout", " ", "60">>,
       <<"ServerAliveInterval", " ", "30">>,
       <<"ServerAliveCountMax", " ", "10">>,
       <<"TCPKeepAlive", " ", "yes">> >>

\* variant: the result of os.WriteFile is dropped
configureSSHForIAPSwallow(o, wrote) ==
    [written |-> wrote, result |-> "ok", text |-> sshConfigText(o), perm |-> "0600"]

\* variant: the file is created readable by everyone
configureSSHForIAPWorldReadable(o, wrote) ==
    [written |-> wrote, result |-> IF wrote THEN "ok" ELSE "err_write",
     text |-> sshConfigText(o), perm |-> "0644"]

\* configureSSHForIAP: os.WriteFile(sshConfigPath, sshConfig, 0600)
\* (create.go:394-396); perm is what a file that is created gets
configureSSHForIAP(o, wrote) ==
    [written |-> wrote, result |-> IF wrote THEN "ok" ELSE "err_write",
     text |-> sshConfigText(o), perm |-> "0600"]

maxAttempts == 60
probeAttempts == 6

\* variant: a failing Status call counts as "not running yet"
StatusStepIgnoreErr(st, i) ==
    IF st.status = "Running" /\ ~st.err THEN "running"
    ELSE IF i = maxAttempts - 1 THEN "err_timeout"
    ELSE "sleep"

\* variant: the loop is left for any instance that was found
StatusStepAnyFound(st, i) ==
    IF st.err THEN "err_status"
    ELSE IF st.status # "NotFound" THEN "running"
    ELSE IF i = maxAttempts - 1 THEN "err_timeout"
    ELSE "sleep"

\* variant: the timeout is raised one turn early
StatusStepEarly(st, i) ==
    IF st.err THEN "err_status"
    ELSE IF st.status = "Running" THEN "running"
    ELSE IF i = maxAttempts - 2 THEN "err_timeout"
    ELSE "sleep"

\* one turn of the status loop of waitForInstanceReady, after Status returned
StatusStep(st, i) ==
    IF st.err THEN "err_status"
    ELSE IF st.status = "Running" THEN "running"
    ELSE IF i = maxAttempts - 1 THEN "err_timeout"
    ELSE "sleep"

\* variant: exhausting the probe attempts is an error
ProbeStepFatal(runOK, i) ==
    IF runOK THEN "ready"
    ELSE IF i < probeAttempts - 1 THEN "sleep"
    ELSE "err"

\* variant: the probe loop has no ceiling
ProbeStepNoCeiling(runOK, i) ==
    IF runOK THEN "ready" ELSE "sleep"

\* variant: the probe loop sleeps after its last attempt too
ProbeStepSleepLast(runOK, i) ==
    IF runOK THEN "ready"
    ELSE IF i < probeAttempts THEN "sleep"
    ELSE "warn"

\* one turn of the probe loop, after testCmd.Run() returned
ProbeStep(runOK, i) ==
    IF runOK THEN "ready"
    ELSE IF i < probeAttempts - 1 THEN "sleep"
    ELSE "warn"

\* exec.Cmd.Run on testCmd: a Cmd whose process was started once cannot be
\* started again; a done context fails the start; launched says whether the
\* ssh process could be started, chan whether the channel carries the command
CmdRun(started, ctxDone, launched, chan) ==
    IF started THEN [ok |-> FALSE, started |-> TRUE, exec |-> FALSE]
    ELSE IF ctxDone \/ ~launched THEN [ok |-> FALSE, started |-> FALSE, exec |-> FALSE]
    ELSE [ok |-> chan, started |-> TRUE, exec |-> TRUE]

(* ------------------------------ files --------------------------------- *)

Flows == {1, 2}
Self == 1

AuthFile == <<"exe", 0, "gcloud_auth.json">>
SshConfigPath(f) == <<"machine", f, "ssh_config">>
KeyPath(f) == <<"machine", f, "id_devpod_rsa">>
Paths == {AuthFile} \cup {SshConfigPath(f) : f \in Flows} \cup {KeyPath(f) : f \in Flows}


\* SetupEnvJson followed by the construction of the two REST clients.
\* how: "execErr", "openErr", "writeErr", "clientErr" or "ok"
NewClientOutcomes(auth) ==
    IF auth = "" THEN {"clientErr", "ok"}
    ELSE {"execErr", "openErr", "writeErr", "clientErr", "ok"}

\* files written by SetupEnvJson: gcloud_auth.json next to the executable
SetupEnvJsonWrites(auth, how) ==
    IF auth # "" /\ how \in {"writeErr", "clientErr", "ok"} THEN {AuthFile} ELSE {}

\* files the client library reads: the credentials file the environment
\* variable GOOGLE_APPLICATION_CREDENTIALS now names
NewClientReads(auth, how) ==
    IF auth # "" /\ how \in {"clientErr", "ok"} THEN {AuthFile} ELSE {}

Touch(acc, paths, f) == [p \in Paths |-> IF p \in paths THEN acc[p] \cup {f} ELSE acc[p]]


(* ------------------------------- state -------------------------------- *)

VARIABLES
    options,          \* the immutable options value of the invocation
    routers,          \* routers of the region, in listing order
    listFailAt,       \* which Next() of the router listing fails (0: none)
    jsonAuth,         \* GCLOUD_JSON_AUTH in the environment of each flow
    pc,               \* position of CreateCmd.Run
    result,           \* what CreateCmd.Run returned ("none" while running)
    cancelled,        \* the caller's context is done
    natFinding,       \* outcome of checkCloudNATConfiguration
    fwFinding,        \* what the firewall listing did
    fwWarnings,       \* "IAP firewall check" warnings logged
    fwRuleExists,     \* the project has a firewall rule the listing filter matches
    instance,         \* the instance spec buildInstance returned
    insertCalls,      \* calls of InstanceClient.Insert
    instanceCreated,  \* the control plane holds the instance
    deleteCalls,      \* calls of Client.Delete
    i,                \* loop variable of the running loop
    polls,            \* calls of Client.Status made by the waiter
    lastAnswer,       \* what the control plane answered to the latest Get
    seenRunning,      \* some poll returned Running without error
    probes,           \* calls of testCmd.Run()
    execs,            \* ssh processes actually started by the probe
    testCmdStarted,   \* testCmd has a started process
    chanOK,           \* the latest attempt would succeed if ssh were run
    ready,            \* the waiter logged "fully ready"
    timeoutWarnings,  \* "SSH readiness check timed out" warnings logged
    sleeping,         \* seconds of the sleep in progress (0: none)
    descriptor,       \* ssh_config of the machine folder
    descWrites,       \* successful writes of ssh_config by this run
    writers,          \* per file, the flows that wrote it
    readers,          \* per file, the flows that read it
    fpc,              \* position of each concurrently running flow
    command,          \* COMMAND in the environment of CommandCmd.Run
    cmdPc,            \* position of CommandCmd.Run
    cmdResult,        \* what CommandCmd.Run returned
    cmdAttempts,      \* channel launches made by CommandCmd.Run
    cmdSleeps,        \* backoff sleeps made by CommandCmd.Run
    chanPlan,         \* whether the k-th channel launch would succeed
    subject,          \* the subnet whose textual forms the preflight is applied to
    findings,         \* what the preflight made of each form, in order
    getAnswer,        \* the answer of InstanceClient.Get that Client.Status is applied to
    statusOut,        \* what Client.Status returned for it
    sshConfig,        \* the text this run wrote to ssh_config, line by line
    descMode,         \* the permission bits of ssh_config ("none": no file)
    cancelledInProbe, \* the context was cancelled while the probe loop was running
    publicKey,        \* the public key in the ssh-keys metadata of the instance
    remote,           \* accounts and files of the instance the startup script works on
    bootPc,           \* position of the startup script
    natAddr,          \* the external NAT address of the instance Get returned to command
    dialed            \* the address ssh.NewSSHClient was given

inputVars == <<options, listFailAt, jsonAuth, subject, getAnswer, publicKey>>
sideVars == <<findings, statusOut, sshConfig, descMode, cancelledInProbe, remote, bootPc,
              natAddr, dialed>>
preflightVars == <<natFinding, fwFinding, fwWarnings, fwRuleExists>>
createVars == <<instance, insertCalls, instanceCreated, deleteCalls>>
waitVars == <<i, polls, lastAnswer, seenRunning, probes, execs, testCmdStarted, chanOK, ready, timeoutWarnings, sleeping>>
fileVars == <<descriptor, descWrites, writers, readers>>
commandVars == <<command, cmdPc, cmdResult, cmdAttempts, cmdSleeps, chanPlan>>

vars == <<options, routers, listFailAt, jsonAuth, subject, findings, getAnswer, statusOut,
          sshConfig, descMode, cancelledInProbe, publicKey, remote, bootPc, natAddr, dialed,
          pc, result, cancelled,
          natFinding, fwFinding, fwWarnings, fwRuleExists,
          instance, insertCalls, instanceCreated, deleteCalls,
          i, polls, lastAnswer, seenRunning, probes, execs, testCmdStarted, chanOK, ready,
          timeoutWarnings, sleeping, descriptor, descWrites, writers, readers, fpc,
          command, cmdPc, cmdResult, cmdAttempts, cmdSleeps, chanPlan>>


NoFiles == [p \in Paths |-> {}]

NoSubject == [project |-> <<>>, region |-> <<>>, name |-> <<>>]
NoAnswer == [kind |-> "none"]
NoStatus == [status |-> "none", err |-> FALSE]

\* the instance before the startup script: no devpod account, no files
NoRemote ==
    [user |-> FALSE, sudoGroup |-> FALSE, sudoers |-> "none", sudoersMode |-> "none",
     sshDirMode |-> "none", authKeys |-> <<>>, authMode |-> "none", owner |-> "none"]

\* the inputs of the functions studied on their own, when they are not studied
NoStudy == subject = NoSubject /\ getAnswer = NoAnswer /\ publicKey = <<>>

InitRun ==
    /\ result = "none" /\ cancelled = FALSE
    /\ deleteCalls = 0 /\ findings = <<>>
    /\ statusOut = NoStatus /\ sshConfig = <<>> /\ cancelledInProbe = FALSE
    /\ remote = NoRemote /\ bootPc = "idle"
    /\ natAddr = NilRef /\ dialed = <<>>
    /\ natFinding = "none" /\ fwFinding = "none" /\ fwWarnings = 0
    /\ instance = NoInstance /\ insertCalls = 0 /\ instanceCreated = FALSE
    /\ i = 0 /\ polls = 0 /\ lastAnswer = "none" /\ seenRunning = FALSE
    /\ probes = 0 /\ execs = 0 /\ testCmdStarted = FALSE /\ chanOK = FALSE
    /\ ready = FALSE /\ timeoutWarnings = 0 /\ sleeping = 0
    /\ descWrites = 0 /\ writers = NoFiles /\ readers = NoFiles

CommandIdle ==
    /\ command = <<>> /\ cmdPc = "idle" /\ cmdResult = "none"
    /\ cmdAttempts = 0 /\ cmdSleeps = 0 /\ chanPlan = <<>>

Init ==
    /\ options \in Options
    /\ routers \in RouterLists
    /\ listFailAt \in 0..(Len(routers) + 1)
    /\ jsonAuth \in [Flows -> {"", "credA"}]
    /\ jsonAuth[2] = ""
    /\ NoStudy
    /\ fwRuleExists \in BOOLEAN
    /\ pc = "start"
    /\ descriptor \in {"absent", "earlier"}
    /\ descMode = IF descriptor = "absent" THEN "none" ELSE "0600"
    /\ fpc = [f \in Flows |-> "idle"]
    /\ InitRun
    /\ CommandIdle

(* ---------------------------- CreateCmd.Run --------------------------- *)

Return(r) == pc' = "done" /\ result' = r

\* the caller cancels the context handed to Run
Cancel ==
    /\ pc # "done" /\ ~cancelled
    /\ cancelled' = TRUE
    /\ cancelledInProbe' = (pc \in {"probe", "sleepProbe"})
    /\ UNCHANGED <<inputVars, routers, findings, statusOut, sshConfig, descMode, remote, bootPc,
                   natAddr, dialed,
                   pc, result, preflightVars, createVars, waitVars,
                   fileVars, fpc, commandVars>>

\* gcloud.NewClient (create.go:49)
NewClient ==
    /\ pc = "start"
    /\ \E how \in NewClientOutcomes(jsonAuth[Self]) :
        /\ writers' = Touch(writers, SetupEnvJsonWrites(jsonAuth[Self], how), Self)
        /\ readers' = Touch(readers, NewClientReads(jsonAuth[Self], how), Self)
        /\ IF how # "ok" THEN Return("err_client")
           ELSE /\ pc' = IF ~options.PublicIP THEN "nat" ELSE "build"
                /\ UNCHANGED result
    /\ UNCHANGED <<inputVars, routers, sideVars, cancelled, preflightVars, createVars, waitVars,
                   descriptor, descWrites, fpc, commandVars>>

\* checkCloudNATConfiguration (create.go:57); a done context fails the listing
CheckNAT ==
    /\ pc = "nat"
    /\ LET r == checkCloudNATConfiguration(options, routers,
                                           IF cancelled THEN 1 ELSE listFailAt)
       IN /\ natFinding' = r
          /\ routers' = RoutersAfterPreflight(routers, r)
          /\ IF r = "satisfied" THEN pc' = "firewall" /\ UNCHANGED result
             ELSE Return(r)
    /\ UNCHANGED <<inputVars, sideVars, cancelled, fwFinding, fwWarnings, fwRuleExists, createVars, waitVars,
                   fileVars, fpc, commandVars>>

\* checkIAPFirewallRules and the warning branch of Run (create.go:62-66).
\* The only gcloud command issued is `firewall-rules list`: the rules of the
\* project stay as they are.
CheckFirewall ==
    /\ pc = "firewall"
    /\ fwRuleExists' = fwRuleExists
    /\ \E out \in {"cmdfail", IF fwRuleExists THEN "found" ELSE "empty"} :
        /\ cancelled => out = "cmdfail"
        /\ fwFinding' = out
        /\ LET a == AfterFirewallCheck(checkIAPFirewallRules(out))
           IN /\ fwWarnings' = IF a.warn THEN fwWarnings + 1 ELSE fwWarnings
              /\ IF a.pc = "done" THEN Return("err_firewall")
                 ELSE pc' = a.pc /\ UNCHANGED result
    /\ UNCHANGED <<inputVars, routers, sideVars, cancelled, natFinding, createVars, waitVars,
                   fileVars, fpc, commandVars>>

\* buildInstance (create.go:69); the key pair lives in the machine folder
BuildInstance ==
    /\ pc = "build"
    /\ \E keyOK \in BOOLEAN :
        LET b == buildInstance(options, keyOK)
        IN /\ instance' = b.instance
           /\ IF b.outcome = "ok" THEN pc' = "create" /\ UNCHANGED result
              ELSE Return(b.outcome)
    /\ writers' = IF AtoiFails(options.DiskSize) THEN writers
                  ELSE Touch(writers, {KeyPath(Self)}, Self)
    /\ readers' = IF AtoiFails(options.DiskSize) THEN readers
                  ELSE Touch(readers, {KeyPath(Self)}, Self)
    /\ UNCHANGED <<inputVars, routers, sideVars, cancelled, preflightVars, insertCalls, instanceCreated,
                   deleteCalls, waitVars, descriptor, descWrites, fpc, commandVars>>

\* Client.Create (create.go:74): Insert, then operation.Wait
ClientCreate ==
    /\ pc = "create"
    /\ insertCalls' = insertCalls + 1
    /\ \E how \in {"insertErr", "waitErr", "ok"}, exists \in BOOLEAN :
        /\ cancelled => how = "insertErr"
        /\ instanceCreated' = ((how = "ok") \/ (how = "waitErr" /\ exists))
        /\ how = "ok" => exists
        /\ how = "insertErr" => ~exists
        /\ IF how # "ok" THEN Return("err_create")
           ELSE IF AfterCreate(options.PublicIP) = "poll" THEN pc' = "poll" /\ UNCHANGED result
           ELSE Return("ok")
    /\ UNCHANGED <<inputVars, routers, sideVars, cancelled, preflightVars, instance, deleteCalls, waitVars,
                   fileVars, fpc, commandVars>>


(* ------------------------ waitForInstanceReady ------------------------ *)


bootstrapDelay == 30

\* client.Status and the rest of one turn of the running loop
\* (create.go:461-475); a done context fails the Get
Poll ==
    /\ pc = "poll"
    /\ \E a \in GetAnswers :
        /\ cancelled => a.kind = "error"
        /\ LET st == ClientStatus(a)
               step == StatusStep(st, i)
           IN /\ polls' = polls + 1
              /\ lastAnswer' = IF a.kind = "instance" THEN TrimUpper(a.raw) ELSE a.kind
              /\ seenRunning' = (seenRunning \/ (~st.err /\ st.status = "Running"))
              /\ IF step = "err_status" \/ step = "err_timeout"
                 THEN /\ Return(step) /\ UNCHANGED sleeping
                      /\ deleteCalls' = IF CleanupOnWaitError(step) THEN deleteCalls + 1
                                        ELSE deleteCalls
                      /\ instanceCreated' = (instanceCreated /\ ~CleanupOnWaitError(step))
                 ELSE /\ UNCHANGED <<deleteCalls, instanceCreated, result>>
                      /\ IF step = "running"
                         THEN pc' = "bootDelay" /\ sleeping' = bootstrapDelay
                         ELSE pc' = "sleepPoll" /\ sleeping' = 5
    /\ UNCHANGED <<inputVars, routers, sideVars, cancelled, preflightVars, instance, insertCalls, i, probes, execs,
                   testCmdStarted, chanOK, ready, timeoutWarnings, fileVars, fpc,
                   commandVars>>

\* time.Sleep(5 * time.Second) returns and the loop goes round (create.go:475)
SleepPoll ==
    /\ pc = "sleepPoll"
    /\ i' = i + 1 /\ sleeping' = 0 /\ pc' = "poll"
    /\ UNCHANGED <<inputVars, routers, sideVars, result, cancelled, preflightVars, createVars, polls, lastAnswer, seenRunning,
                   probes, execs, testCmdStarted, chanOK, ready, timeoutWarnings,
                   fileVars, fpc, commandVars>>

\* time.Sleep(30 * time.Second) returns; testCmd is built (create.go:482-491)
BootDelay ==
    /\ pc = "bootDelay"
    /\ i' = 0 /\ sleeping' = 0 /\ pc' = "probe"
    /\ UNCHANGED <<inputVars, routers, sideVars, result, cancelled, preflightVars, createVars, polls, lastAnswer, seenRunning,
                   probes, execs, testCmdStarted, chanOK, ready, timeoutWarnings,
                   fileVars, fpc, commandVars>>

\* testCmd.Run() and the rest of one turn of the probe loop (create.go:494-504),
\* and after the last turn the warning (create.go:507).  ssh -F needs the
\* ssh_config of the machine folder to exist.
Probe ==
    /\ pc = "probe"
    /\ \E launched \in BOOLEAN, up \in BOOLEAN :
        LET chan == up /\ descriptor # "absent"
            r == CmdRun(testCmdStarted, cancelled, launched, chan)
            step == ProbeStep(r.ok, i)
        IN /\ probes' = probes + 1
           /\ chanOK' = (launched /\ chan /\ ~cancelled)
           /\ testCmdStarted' = r.started
           /\ execs' = IF r.exec THEN execs + 1 ELSE execs
           /\ readers' = IF r.exec THEN Touch(readers, {SshConfigPath(Self)}, Self)
                         ELSE readers
           /\ ready' = (step = "ready")
           /\ timeoutWarnings' = IF step = "warn" THEN timeoutWarnings + 1
                                 ELSE timeoutWarnings
           /\ IF step = "err" THEN Return("err_probe") /\ UNCHANGED sleeping
              ELSE IF step = "sleep"
              THEN pc' = "sleepProbe" /\ sleeping' = 10 /\ UNCHANGED result
              ELSE pc' = "configure" /\ UNCHANGED <<result, sleeping>>
    /\ UNCHANGED <<inputVars, routers, sideVars, cancelled, preflightVars, createVars, i, polls, lastAnswer, seenRunning,
                   descriptor, descWrites, writers, fpc, commandVars>>

\* time.Sleep(10 * time.Second) returns and the loop goes round (create.go:502)
SleepProbe ==
    /\ pc = "sleepProbe"
    /\ i' = i + 1 /\ sleeping' = 0 /\ pc' = "probe"
    /\ UNCHANGED <<inputVars, routers, sideVars, result, cancelled, preflightVars, createVars, polls, lastAnswer, seenRunning,
                   probes, execs, testCmdStarted, chanOK, ready, timeoutWarnings,
                   fileVars, fpc, commandVars>>

\* configureSSHForIAP (create.go:87): os.WriteFile succeeds or fails
ConfigureSSH ==
    /\ pc = "configure"
    /\ \E wrote \in BOOLEAN :
        LET c == configureSSHForIAP(options, wrote)
        IN /\ descriptor' = IF c.written THEN "written" ELSE descriptor
           /\ sshConfig' = IF c.written THEN c.text ELSE sshConfig
           /\ descMode' = IF c.written /\ descriptor = "absent" THEN c.perm ELSE descMode
           /\ descWrites' = IF c.written THEN descWrites + 1 ELSE descWrites
           /\ writers' = Touch(writers, {SshConfigPath(Self)}, Self)
           /\ Return(c.result)
    /\ UNCHANGED <<inputVars, routers, findings, statusOut, cancelledInProbe, remote, bootPc,
                   natAddr, dialed,
                   cancelled, preflightVars, createVars, waitVars, readers,
                   fpc, commandVars>>

Next ==
    \/ Cancel
    \/ NewClient
    \/ CheckNAT
    \/ CheckFirewall
    \/ BuildInstance
    \/ ClientCreate
    \/ Poll
    \/ SleepPoll
    \/ BootDelay
    \/ Probe
    \/ SleepProbe
    \/ ConfigureSSH

Spec == Init /\ [][Next]_vars

\* Run is one sequential flow: while a step is possible, one is taken
SpecFair == Spec /\ WF_vars(Next)


(* ---------------------------- CommandCmd.Run -------------------------- *)

Commands == {<<>>, <<"ls">>}

\* the retry ceiling the documentation gives for IAP commands
docMaxRetries == 3

\* what the documentation gives for the readiness check: the number of probe
\* attempts and the sleep after attempt number k (counted from 0)
docProbeAttempts == 12
docBackoff(k) == IF 5 * (k + 1) < 30 THEN 5 * (k + 1) ELSE 30

\* answers of InstanceClient.Get to CommandCmd.Run: the instance may lack
\* an external NAT address
CommandGetAnswers ==
    {[kind |-> "error"], [kind |-> "notfound"]}
        \cup [kind : {"instance"},
              raw : {<<"RUNNING">>},
              natIP : {NilRef} \cup {Ref(a) : a \in {<<"34.1.2.3">>, <<"35.9.9.9">>}}]

\* variant: a missing instance is not looked for
CommandGetStepNoNilCheck(g, publicIP, natIP) ==
    IF g.err THEN "err_get"
    ELSE IF publicIP /\ ~natIP THEN "err_no_nat_ip"
    ELSE IF ~publicIP THEN "ssh"
    ELSE "direct"

\* the checks of CommandCmd.Run on what Client.Get returned (command.go:64-74)
CommandGetStep(g, publicIP, natIP) ==
    IF g.err THEN "err_get"
    ELSE IF g.isNil THEN "err_not_exist"
    ELSE IF publicIP /\ ~natIP THEN "err_no_nat_ip"
    ELSE IF ~publicIP THEN "ssh"
    ELSE "direct"

\* the proxied branch after sshCmd.Run() returned (command.go:94-98):
\* "retry" would start another attempt
IapRunStep(runOK, attempts) == IF runOK THEN "ok" ELSE "err_ssh"

\* target+":"+port of the direct branch (command.go:102-105)
DirectTarget(natIP) == natIP.path \o <<":", "22">>

\* variant: a failed run starts another attempt
DirectRunStepRetry(dialOK, runOK) ==
    IF ~dialOK THEN "err_ssh_client" ELSE IF runOK THEN "ok" ELSE "retry"

\* the direct branch: ssh.NewSSHClient, then ssh.Run (command.go:105-112)
DirectRunStep(dialOK, runOK) ==
    IF ~dialOK THEN "err_ssh_client" ELSE IF runOK THEN "ok" ELSE "err_run"

InitCommand ==
    /\ options \in Options
    /\ routers = <<>> /\ listFailAt = 0
    /\ jsonAuth \in [Flows -> {"", "credA"}]
    /\ jsonAuth[2] = ""
    /\ NoStudy /\ fwRuleExists = FALSE
    /\ pc = "idle"
    /\ descriptor \in {"absent", "earlier", "written"}
    /\ descMode = IF descriptor = "absent" THEN "none" ELSE "0600"
    /\ fpc = [f \in Flows |-> "idle"]
    /\ InitRun
    /\ command \in Commands
    /\ cmdPc = "start" /\ cmdResult = "none" /\ cmdAttempts = 0 /\ cmdSleeps = 0
    /\ chanPlan \in [1..docMaxRetries -> BOOLEAN]

CmdReturn(r) == cmdPc' = "done" /\ cmdResult' = r

\* variant: an invocation that failed removes ssh_config
DescriptorAfterCommandDrop(d, r) == IF r \notin {"none", "ok"} THEN "absent" ELSE d

\* ssh_config after a step of CommandCmd.Run whose result so far is r: the
\* function passes the file to ssh -F (command.go:77-92) and never writes it
DescriptorAfterCommand(d, r) == d

CancelCommand ==
    /\ cmdPc \notin {"idle", "done"} /\ ~cancelled
    /\ cancelled' = TRUE
    /\ UNCHANGED <<inputVars, routers, sideVars, pc, result, preflightVars, createVars, waitVars,
                   fileVars, fpc, commandVars>>

\* COMMAND, the private key and gcloud.NewClient (command.go:45-61)
CommandStart ==
    /\ cmdPc = "start"
    /\ \E keyOK \in BOOLEAN, how \in NewClientOutcomes(jsonAuth[Self]) :
        IF command = <<>> THEN CmdReturn("err_no_command") /\ UNCHANGED <<writers, readers>>
        ELSE IF ~keyOK
        THEN /\ CmdReturn("err_key")
             /\ readers' = Touch(readers, {KeyPath(Self)}, Self)
             /\ UNCHANGED writers
        ELSE /\ writers' = Touch(writers, SetupEnvJsonWrites(jsonAuth[Self], how), Self)
             /\ readers' = Touch(readers, {KeyPath(Self)} \cup
                                          NewClientReads(jsonAuth[Self], how), Self)
             /\ IF how # "ok" THEN CmdReturn("err_client")
                ELSE cmdPc' = "get" /\ UNCHANGED cmdResult
    /\ descriptor' = DescriptorAfterCommand(descriptor, cmdResult')
    /\ UNCHANGED <<inputVars, routers, sideVars, pc, result, cancelled, preflightVars, createVars, waitVars,
                   descWrites, fpc, command, cmdAttempts, cmdSleeps, chanPlan>>

\* client.Get and the checks on the instance (command.go:64-74)
CommandGet ==
    /\ cmdPc = "get"
    /\ \E a \in CommandGetAnswers :
        /\ cancelled => a.kind = "error"
        /\ LET step == CommandGetStep(ClientGet(a), options.PublicIP,
                                      a.kind = "instance" /\ ~a.natIP.isNil)
           IN IF step \in {"ssh", "direct"} THEN cmdPc' = step /\ UNCHANGED cmdResult
              ELSE CmdReturn(step)
        /\ natAddr' = IF a.kind = "instance" THEN a.natIP ELSE natAddr
        /\ lastAnswer' = IF a.kind = "instance" THEN TrimUpper(a.raw) ELSE a.kind
    /\ UNCHANGED <<inputVars, routers, findings, statusOut, sshConfig, descMode, cancelledInProbe,
                   remote, bootPc, dialed, pc, result, cancelled, preflightVars, createVars,
                   i, polls, seenRunning, probes, execs, testCmdStarted, chanOK, ready,
                   timeoutWarnings, sleeping,
                   descWrites, writers, readers, fpc, command, cmdAttempts, cmdSleeps, chanPlan>>
    /\ descriptor' = DescriptorAfterCommand(descriptor, cmdResult')

\* ssh -F ssh_config through the IAP ProxyCommand (command.go:77-99)
CommandIap ==
    /\ cmdPc = "ssh"
    /\ cmdAttempts < Len(chanPlan)
    /\ LET runOK == chanPlan[cmdAttempts + 1] /\ descriptor # "absent" /\ ~cancelled
           step == IapRunStep(runOK, cmdAttempts + 1)
       IN /\ cmdAttempts' = cmdAttempts + 1
          /\ readers' = Touch(readers, {SshConfigPath(Self)}, Self)
          /\ IF step = "retry"
             THEN cmdSleeps' = cmdSleeps + 1 /\ UNCHANGED <<cmdPc, cmdResult>>
             ELSE CmdReturn(step) /\ UNCHANGED cmdSleeps
    /\ descriptor' = DescriptorAfterCommand(descriptor, cmdResult')
    /\ UNCHANGED <<inputVars, routers, sideVars, pc, result, cancelled, preflightVars, createVars, waitVars,
                   descWrites, writers, fpc, command, chanPlan>>

\* ssh.NewSSHClient to the NAT address and ssh.Run (command.go:101-112)
CommandDirect ==
    /\ cmdPc = "direct"
    /\ cmdAttempts < Len(chanPlan)
    /\ \E dialOK \in BOOLEAN :
        LET step == DirectRunStep(dialOK, chanPlan[cmdAttempts + 1] /\ ~cancelled)
        IN /\ cmdAttempts' = cmdAttempts + 1
           /\ dialed' = DirectTarget(natAddr)
           /\ IF step = "retry"
              THEN cmdSleeps' = cmdSleeps + 1 /\ UNCHANGED <<cmdPc, cmdResult>>
              ELSE CmdReturn(step) /\ UNCHANGED cmdSleeps
    /\ UNCHANGED <<inputVars, routers, findings, statusOut, sshConfig, descMode, cancelledInProbe,
                   remote, bootPc, natAddr, pc, result, cancelled, preflightVars,
                   createVars, waitVars, descWrites, writers, readers, fpc, command, chanPlan>>
    /\ descriptor' = DescriptorAfterCommand(descriptor, cmdResult')

NextCommand ==
    \/ CancelCommand
    \/ CommandStart
    \/ CommandGet
    \/ CommandIap
    \/ CommandDirect

SpecCommand == InitCommand /\ [][NextCommand]_vars

(* ------------------ flows of two instances side by side --------------- *)

\* the steps of a proxied create that touch files, for flow f
InitFlows ==
    /\ options \in {o \in Options : ~o.PublicIP /\ o.Zone = ZoneOK /\ o.Subnetwork = SubnetBare}
    /\ routers = <<>> /\ listFailAt = 0
    /\ jsonAuth \in [Flows -> {"", "credA", "credB"}]
    /\ NoStudy /\ fwRuleExists = FALSE
    /\ pc = "idle"
    /\ descriptor = "absent"
    /\ descMode = IF descriptor = "absent" THEN "none" ELSE "0600"
    /\ fpc = [f \in Flows |-> "start"]
    /\ InitRun
    /\ CommandIdle

FlowUnchanged ==
    UNCHANGED <<inputVars, routers, sideVars, pc, result, cancelled, preflightVars, createVars, waitVars,
                descriptor, descWrites, commandVars>>

FlowNewClient(f) ==
    /\ fpc[f] = "start"
    /\ \E how \in NewClientOutcomes(jsonAuth[f]) :
        /\ writers' = Touch(writers, SetupEnvJsonWrites(jsonAuth[f], how), f)
        /\ readers' = Touch(readers, NewClientReads(jsonAuth[f], how), f)
        /\ fpc' = [fpc EXCEPT ![f] = IF how = "ok" THEN "build" ELSE "done"]
    /\ FlowUnchanged

FlowBuild(f) ==
    /\ fpc[f] = "build"
    /\ writers' = IF AtoiFails(options.DiskSize) THEN writers
                  ELSE Touch(writers, {KeyPath(f)}, f)
    /\ readers' = IF AtoiFails(options.DiskSize) THEN readers
                  ELSE Touch(readers, {KeyPath(f)}, f)
    /\ \E keyOK \in BOOLEAN :
        fpc' = [fpc EXCEPT ![f] = IF buildInstance(options, keyOK).outcome = "ok"
                                  THEN "probe" ELSE "done"]
    /\ FlowUnchanged

FlowProbe(f) ==
    /\ fpc[f] = "probe"
    /\ readers' = Touch(readers, {SshConfigPath(f)}, f)
    /\ fpc' = [fpc EXCEPT ![f] = "configure"]
    /\ UNCHANGED writers
    /\ FlowUnchanged

FlowConfigure(f) ==
    /\ fpc[f] = "configure"
    /\ writers' = Touch(writers, {SshConfigPath(f)}, f)
    /\ fpc' = [fpc EXCEPT ![f] = "done"]
    /\ UNCHANGED readers
    /\ FlowUnchanged

NextFlows ==
    \E f \in Flows :
        \/ FlowNewClient(f)
        \/ FlowBuild(f)
        \/ FlowProbe(f)
        \/ FlowConfigure(f)

SpecFlows == InitFlows /\ [][NextFlows]_vars


(* ------------------- create, then commands on the machine ------------- *)

InitLifecycle ==
    /\ Init
    /\ options.Zone = ZoneOK /\ options.Subnetwork = SubnetBare
    /\ options.DiskSize = <<"4", "0">>
    /\ routers = <<[Nats |-> <<NatPrimary, NatAll>>]>> /\ listFailAt = 0
    /\ jsonAuth = [f \in Flows |-> ""]
    /\ fwRuleExists

\* after create returned success the command is invoked on the machine, any
\* number of times, each time in a process and with a context of its own
InvokeCommand ==
    /\ pc = "done" /\ result = "ok"
    /\ cmdPc \in {"idle", "done"}
    /\ cmdPc' = "start" /\ cmdResult' = "none" /\ cmdAttempts' = 0 /\ cmdSleeps' = 0
    /\ cancelled' = FALSE
    /\ \E c \in Commands, plan \in [1..docMaxRetries -> BOOLEAN] :
        command' = c /\ chanPlan' = plan
    /\ UNCHANGED <<inputVars, routers, sideVars, pc, result, preflightVars, createVars, waitVars,
                   fileVars, fpc>>

NextLifecycle ==
    \/ Next
    \/ InvokeCommand
    \/ NextCommand

SpecLifecycle == InitLifecycle /\ [][NextLifecycle]_vars

(* ----------------------- buildInstance on its own --------------------- *)

InitBuild ==
    /\ options \in BuildOptions
    /\ routers = <<>> /\ listFailAt = 0
    /\ jsonAuth = [f \in Flows |-> ""]
    /\ NoStudy /\ fwRuleExists = FALSE
    /\ pc = "build"
    /\ descriptor = "absent"
    /\ descMode = IF descriptor = "absent" THEN "none" ELSE "0600"
    /\ fpc = [f \in Flows |-> "idle"]
    /\ InitRun
    /\ CommandIdle


SpecBuild == InitBuild /\ [][BuildInstance]_vars

(* ------------- the startup script on the booting instance ------------ *)

OldKey == <<"ssh-rsa", " ", "AAAA0">>

\* the value of the ssh-keys metadata item, line by line: "devpod:" + key
\* (create.go:124)
MetadataSshKeys(key) == << <<"devpod", ":">> \o key >>

\* grep "^devpod:" keeps the lines that begin with devpod:
RECURSIVE GrepDevpod(_)
GrepDevpod(lines) ==
    IF Len(lines) = 0 THEN <<>>
    ELSE LET l == Head(lines)
             keep == Len(l) >= 2 /\ l[1] = "devpod" /\ l[2] = ":"
         IN (IF keep THEN <<l>> ELSE <<>>) \o GrepDevpod(Tail(lines))

\* sed 's/^devpod://' drops that beginning from each line that has it
SedStripDevpod(lines) ==
    [k \in 1..Len(lines) |->
        IF Len(lines[k]) >= 2 /\ lines[k][1] = "devpod" /\ lines[k][2] = ":"
        THEN SubSeq(lines[k], 3, Len(lines[k])) ELSE lines[k]]

\* the instance at boot: no devpod account, or an account that is there
\* already (from the image, from the guest agent, from an earlier boot) with
\* or without sudo rights and with or without an authorized_keys file
RemoteStates(key) ==
    {NoRemote}
    \cup { [user |-> TRUE, sudoGroup |-> g, sudoers |-> "none", sudoersMode |-> "none",
            sshDirMode |-> "none", authKeys |-> <<>>, authMode |-> "none", owner |-> "none"] :
                g \in BOOLEAN }
    \cup [user : {TRUE}, sudoGroup : BOOLEAN, sudoers : {"NOPASSWD"}, sudoersMode : {"0440"},
          sshDirMode : {"700"}, authKeys : {<<>>, <<OldKey>>, <<key>>},
          authMode : {"600", "644"}, owner : {"devpod", "root"}]
    \cup [user : {TRUE}, sudoGroup : BOOLEAN, sudoers : {"none"}, sudoersMode : {"none"},
          sshDirMode : {"700"}, authKeys : {<<OldKey>>, <<key>>},
          authMode : {"600"}, owner : {"devpod"}]

InitBootstrap ==
    /\ options \in {o \in Options : ~o.PublicIP /\ o.Subnetwork = SubnetBare
                                     /\ o.DiskSize = <<"4", "0">> /\ o.Zone = ZoneOK}
    /\ routers = <<>> /\ listFailAt = 0
    /\ jsonAuth = [f \in Flows |-> ""]
    /\ subject = NoSubject /\ getAnswer = NoAnswer
    /\ publicKey \in { <<"ssh-rsa", " ", "AAAA1">>, <<"ssh-rsa", " ", "AAAA2", " ", "devpod">>, <<"ssh-ed25519", " ", "AAAA3">> }
    /\ fwRuleExists = FALSE
    /\ pc = "idle"
    /\ descriptor = "absent"
    /\ descMode = IF descriptor = "absent" THEN "none" ELSE "0600"
    /\ fpc = [f \in Flows |-> "idle"]
    /\ result = "none" /\ cancelled = FALSE
    /\ deleteCalls = 0 /\ findings = <<>>
    /\ statusOut = NoStatus /\ sshConfig = <<>> /\ cancelledInProbe = FALSE
    /\ remote \in RemoteStates(publicKey) /\ bootPc = "id"
    /\ natAddr = NilRef /\ dialed = <<>>
    /\ natFinding = "none" /\ fwFinding = "none" /\ fwWarnings = 0
    /\ instance = buildInstance(options, TRUE).instance /\ insertCalls = 1 /\ instanceCreated = TRUE
    /\ i = 0 /\ polls = 0 /\ lastAnswer = "none" /\ seenRunning = FALSE
    /\ probes = 0 /\ execs = 0 /\ testCmdStarted = FALSE /\ chanOK = FALSE
    /\ ready = FALSE /\ timeoutWarnings = 0 /\ sleeping = 0
    /\ descWrites = 0 /\ writers = NoFiles /\ readers = NoFiles
    /\ CommandIdle

\* the commands between `then` and `fi` of the startup script, in order
\* (create.go:135-153)
startupScript ==
    <<"useradd", "usermod", "echo", "chmod 0440", "mkdir", "chmod 700", "curl|grep|sed",
      "chmod 600", "chown">>

\* what one command of the script makes of the instance:
\*   useradd -m -s /bin/bash devpod
\*   usermod -aG sudo devpod
\*   echo "devpod ALL=(ALL) NOPASSWD:ALL" > /etc/sudoers.d/devpod
\*   chmod 0440 /etc/sudoers.d/devpod
\*   mkdir -p /home/devpod/.ssh
\*   chmod 700 /home/devpod/.ssh
\*   curl ... ssh-keys | grep "^devpod:" | sed 's/^devpod://' > authorized_keys
\*   chmod 600 /home/devpod/.ssh/authorized_keys
\*   chown -R devpod:devpod /home/devpod/.ssh
Bash(cmd, r, key) ==
    CASE cmd = "useradd" -> [r EXCEPT !.user = TRUE]
      [] cmd = "usermod" -> [r EXCEPT !.sudoGroup = TRUE]
      [] cmd = "echo" ->
            [r EXCEPT !.sudoers = "NOPASSWD",
                      !.sudoersMode = IF r.sudoersMode = "none" THEN "0644" ELSE r.sudoersMode]
      [] cmd = "chmod 0440" -> [r EXCEPT !.sudoersMode = "0440"]
      [] cmd = "mkdir" ->
            IF r.sshDirMode = "none" THEN [r EXCEPT !.sshDirMode = "755", !.owner = "root"]
            ELSE r
      [] cmd = "chmod 700" -> [r EXCEPT !.sshDirMode = "700"]
      [] cmd = "curl|grep|sed" ->
            [r EXCEPT !.authKeys = SedStripDevpod(GrepDevpod(MetadataSshKeys(key))),
                      !.authMode = IF r.authMode = "none" THEN "644" ELSE r.authMode]
      [] cmd = "chmod 600" -> [r EXCEPT !.authMode = "600"]
      [] cmd = "chown" -> [r EXCEPT !.owner = "devpod"]

\* if ! id -u devpod > /dev/null 2>&1; then ... fi (create.go:134, 154)
IdCheck ==
    /\ bootPc = "id"
    /\ bootPc' = IF remote.user THEN "done" ELSE startupScript[1]
    /\ UNCHANGED <<inputVars, routers, findings, statusOut, sshConfig, descMode, cancelledInProbe,
                   remote, natAddr, dialed, pc, result, cancelled, preflightVars,
                   createVars, waitVars, fileVars, fpc, commandVars>>

\* the next command of the script runs; the script has no `set -e`, and the
\* commands are taken to succeed
ScriptCommand ==
    /\ \E k \in 1..Len(startupScript) :
        /\ bootPc = startupScript[k]
        /\ bootPc' = IF k = Len(startupScript) THEN "done" ELSE startupScript[k + 1]
        /\ remote' = Bash(startupScript[k], remote, publicKey)
    /\ UNCHANGED <<inputVars, routers, findings, statusOut, sshConfig, descMode, cancelledInProbe,
                   natAddr, dialed, pc, result, cancelled, preflightVars,
                   createVars, waitVars, fileVars, fpc, commandVars>>

NextBootstrap ==
    \/ IdCheck
    \/ ScriptCommand

SpecBootstrap == InitBootstrap /\ [][NextBootstrap]_vars

(* ------------------ configureSSHForIAP on its options ---------------- *)

ZoneEurope == <<"europe", "-", "west1", "-", "b">>


InitConfigure ==
    /\ options \in [PublicIP : {FALSE}, Zone : {ZoneOK, ZoneEurope}, Subnetwork : {SubnetBare}, DiskSize : {<<"4", "0">>}, Network : {NetworkBare}, MachineType : {MachineTypeE2}, Project : {ProjectP, <<"q", "-", "2">>}, MachineID : {MachineIDM, <<"m2">>, <<"devpod", "-", "us", "-", "central1", "-", "a">>}, MachineFolder : {MachineFolderM, MachineFolderM \o <<"/">>, <<"m2">>}]
    /\ routers = <<>> /\ listFailAt = 0
    /\ jsonAuth = [f \in Flows |-> ""]
    /\ NoStudy /\ fwRuleExists = FALSE
    /\ pc = "configure"
    /\ descriptor \in {"absent", "earlier"}
    /\ descMode = IF descriptor = "absent" THEN "none" ELSE "0600"
    /\ fpc = [f \in Flows |-> "idle"]
    /\ InitRun
    /\ CommandIdle


SpecConfigure == InitConfigure /\ [][ConfigureSSH]_vars

(* ------------------- Client.Status on one answer of Get -------------- *)


\* the spellings of a status word: capitals, small letters, capitalised
Spellings(w) ==
    CASE w = "RUNNING" -> {"RUNNING", "running", "Running"}
      [] w = "STOPPING" -> {"STOPPING", "stopping", "Stopping"}
      [] w = "SUSPENDING" -> {"SUSPENDING", "suspending", "Suspending"}
      [] w = "REPAIRING" -> {"REPAIRING", "repairing", "Repairing"}
      [] w = "PROVISIONING" -> {"PROVISIONING", "provisioning", "Provisioning"}
      [] w = "STAGING" -> {"STAGING", "staging", "Staging"}
      [] w = "TERMINATED" -> {"TERMINATED", "terminated", "Terminated"}
      [] w = "SUSPENDED" -> {"SUSPENDED", "suspended", "Suspended"}
      [] w = "UNKNOWN" -> {"UNKNOWN", "unknown", "Unknown"}

\* white space before and after a status
Paddings == {<<>>, <<" ">>, <<"\t">>, <<"\n", " ">>}

\* the answers Client.Status is studied on; word is the status the raw string
\* spells ("" for the empty string, "(other)" for a string of two words)
StatusAnswers ==
    {[kind |-> "error"], [kind |-> "notfound"]}
    \cup UNION { UNION { { [kind |-> "instance", raw |-> l \o <<sp>> \o r, word |-> w] :
                            l \in Paddings, r \in Paddings } : sp \in Spellings(w) }
                 : w \in {"RUNNING", "STOPPING", "SUSPENDING", "REPAIRING", "PROVISIONING", "STAGING", "TERMINATED", "SUSPENDED", "UNKNOWN"} }
    \cup { [kind |-> "instance", raw |-> l \o r, word |-> ""] : l \in Paddings, r \in Paddings }
    \cup { [kind |-> "instance", raw |-> <<sp, " ", sp>>, word |-> "(other)"] :
                sp \in {"RUNNING", "staging"} }

InitStatus ==
    /\ options \in {o \in Options : ~o.PublicIP /\ o.Subnetwork = SubnetBare
                                     /\ o.DiskSize = <<"4", "0">> /\ o.Zone = ZoneOK}
    /\ routers = <<>> /\ listFailAt = 0
    /\ jsonAuth = [f \in Flows |-> ""]
    /\ subject = NoSubject /\ publicKey = <<>>
    /\ getAnswer \in StatusAnswers
    /\ fwRuleExists = FALSE
    /\ pc = "idle"
    /\ descriptor = "absent"
    /\ descMode = IF descriptor = "absent" THEN "none" ELSE "0600"
    /\ fpc = [f \in Flows |-> "idle"]
    /\ InitRun
    /\ CommandIdle

\* one call of Client.Status
StatusCall ==
    /\ statusOut = NoStatus
    /\ statusOut' = ClientStatus(getAnswer)
    /\ UNCHANGED <<inputVars, routers, findings, sshConfig, descMode, cancelledInProbe, remote, bootPc,
                   natAddr, dialed,
                   pc, result, cancelled, preflightVars, createVars, waitVars,
                   fileVars, fpc, commandVars>>


SpecStatus == InitStatus /\ [][StatusCall]_vars

(* ------------- the NAT preflight on the forms of one subnet ----------- *)


\* the number of preflight runs on one subnet
MaxChecks == 4

\* a NAT that lists another subnet whose name holds "sn", and one that lists
\* the subnet in capitals
NatListSn2 ==
    [Mode |-> "LIST_OF_SUBNETWORKS",
     Subnetworks |-> <<SubnetworkPath(ProjectP, <<"r">>, <<"sn", "-", "2">>)>>]


\* the textual forms of one subnet: full path, region/name, bare name
FormsOf(sub) ==
    << SubnetworkPath(sub.project, sub.region, sub.name),
       sub.region \o <<"/">> \o sub.name,
       sub.name >>

InitPreflight ==
    /\ options \in {o \in Options : ~o.PublicIP /\ o.Subnetwork = SubnetBare
                                     /\ o.DiskSize = <<"4", "0">>}
    /\ routers \in (RouterLists \cup { <<[Nats |-> <<NatListSn2>>]>>, <<[Nats |-> <<NatPrimary>>], [Nats |-> <<[Mode |-> "LIST_OF_SUBNETWORKS", Subnetworks |-> <<SubnetworkPath(ProjectP, <<"r">>, <<"SN">>)>>]>>]>> })
    /\ listFailAt \in 0..(Len(routers) + 1)
    /\ jsonAuth = [f \in Flows |-> ""]
    /\ subject \in [project : {ProjectP}, region : {<<"r">>, <<"us", "-", "central1">>}, name : {<<"sn">>, <<"other">>, <<"sn", "-", "2">>, <<"projects">>}]
    /\ getAnswer = NoAnswer /\ publicKey = <<>>
    /\ fwRuleExists = FALSE
    /\ pc = "idle"
    /\ descriptor = "absent"
    /\ descMode = IF descriptor = "absent" THEN "none" ELSE "0600"
    /\ fpc = [f \in Flows |-> "idle"]
    /\ InitRun
    /\ CommandIdle

\* checkCloudNATConfiguration applied to one of the forms of the subnet; nat
\* is what its call of Client.CheckCloudNAT returns
CheckForm ==
    /\ Len(findings) < MaxChecks
    /\ \E k \in 1..Len(FormsOf(subject)) :
        LET form == FormsOf(subject)[k]
            name == NatSubnetName(form)
            r == checkCloudNATConfiguration([options EXCEPT !.Subnetwork = form],
                                            routers, listFailAt)
        IN /\ findings' = Append(findings,
                [form |-> k, name |-> name, finding |-> r,
                 nat |-> CheckCloudNAT(routers, listFailAt, name)])
           /\ routers' = RoutersAfterPreflight(routers, r)
    /\ UNCHANGED <<inputVars, statusOut, sshConfig, descMode, cancelledInProbe, remote, bootPc,
                   natAddr, dialed,
                   pc, result, cancelled, preflightVars, createVars, waitVars,
                   fileVars, fpc, commandVars>>


SpecPreflight == InitPreflight /\ [][CheckForm]_vars


(* ------------------------------ properties ---------------------------- *)

NotYetAnswers == {"notfound", "STOPPING", "SUSPENDING", "REPAIRING", "PROVISIONING",
                  "STAGING", "TERMINATED"}

\* C1: in proxied mode Insert is called only after the NAT preflight returned
\* "satisfied"; with an empty subnet, no applicable NAT or a failed router
\* listing, create returns an error and Insert is never called.
C1_PreflightBeforeCreate ==
    ~options.PublicIP =>
        /\ insertCalls > 0 => natFinding = "satisfied"
        /\ (natFinding # "none" /\ options.Subnetwork = <<>>) =>
                (result = "err_subnet_required" /\ insertCalls = 0)
        /\ natFinding \in {"err_nat_missing", "err_nat_check"} =>
                (result = natFinding /\ insertCalls = 0)

\* C2: ssh_config is written only after a status poll returned Running.
C2_DescriptorAfterRunning ==
    (descWrites > 0 \/ pc = "configure") => (seenRunning /\ ~options.PublicIP)

C2_Witness == descWrites = 1 /\ descriptor = "written" /\ polls > 1 /\ seenRunning

C4_StatusCeiling ==
    /\ polls <= maxAttempts
    /\ result = "err_timeout" =>
            (polls = maxAttempts /\ probes = 0 /\ ~seenRunning /\ lastAnswer \in NotYetAnswers)
    /\ (~seenRunning /\ lastAnswer \in NotYetAnswers) =>
            IF polls = maxAttempts
            THEN pc = "done" /\ result = "err_timeout" /\ probes = 0
            ELSE result = "none" /\ pc \in {"sleepPoll", "poll"} /\ polls = i + (IF pc = "poll" THEN 0 ELSE 1)

C4_Witness == result = "err_timeout" /\ polls = maxAttempts /\ probes = 0

\* C5 as stated: whenever the control plane answered the poll, the waiter fails
\* only on the exhausted ceiling; NotFound and unrecognized raw statuses are
\* followed by another poll.
C5_AsClaimed ==
    /\ (result \in {"err_status", "err_timeout"} /\ lastAnswer # "error") =>
            (polls = maxAttempts /\ ~seenRunning)
    /\ (polls > 0 /\ polls < maxAttempts /\ lastAnswer \in {"notfound", "SUSPENDED"}) =>
            (result = "none" /\ pc \in {"sleepPoll", "poll"})

\* C5 amended: the waiter fails when the ceiling is exhausted without Running
\* and also as soon as a poll itself fails (a non-404 Get failure or an
\* unrecognized raw status); NotFound, Busy and Stopped are followed by
\* another poll.
C5_ErrorCauses ==
    /\ result = "err_timeout" => (polls = maxAttempts /\ ~seenRunning)
    /\ (polls > 0 /\ lastAnswer \notin NotYetAnswers \cup {"RUNNING"}) =>
            (pc = "done" /\ result = "err_status")
    /\ result = "err_status" => lastAnswer \in {"error", "SUSPENDED"}
    /\ (polls > 0 /\ polls < maxAttempts /\ lastAnswer \in NotYetAnswers) =>
            (result = "none" /\ pc \in {"sleepPoll", "poll"})
    /\ seenRunning => result \in {"none", "ok", "err_write"}

C5_Witness ==
    /\ result = "err_status" /\ lastAnswer = "SUSPENDED" /\ polls > 1 /\ polls < maxAttempts

\* C6: an attempt after the first at which the channel would carry the probe
\* reports ready, ends the probing and leaves no timeout warning.
C6_LaterAttemptSucceeds ==
    (probes >= 2 /\ chanOK) => (ready /\ pc \in {"configure", "done"} /\ timeoutWarnings = 0)

\* C7: a proxied command is retried up to the documented ceiling, succeeds as
\* soon as one attempt succeeds, and fails only after the ceiling of attempts.
C7_CommandRetries ==
    (cmdPc = "done" /\ ~options.PublicIP /\ cmdAttempts >= 1 /\ ~cancelled) =>
        LET good == {k \in 1..docMaxRetries : chanPlan[k] /\ descriptor # "absent"}
        IN IF good # {}
           THEN /\ cmdResult = "ok"
                /\ \A k \in good : cmdAttempts <= k
                /\ cmdSleeps = cmdAttempts - 1
           ELSE cmdResult = "err_ssh" /\ cmdAttempts = docMaxRetries

\* C8: no file written by one flow is read or written by another flow.
C8_NoSharedFiles ==
    \A p \in Paths : writers[p] # {} => Cardinality(writers[p] \cup readers[p]) <= 1

\* C9: once the context is cancelled, no sleep of the waiter starts and no
\* sleep runs to completion.
C9_NoSleepAfterCancel ==
    [][cancelled => \/ (sleeping' = sleeping /\ pc' = pc)
                    \/ (sleeping = 0 /\ sleeping' = 0)]_vars

\* C10: a failed firewall check (no rule found, or the listing failing) logs
\* one warning and never ends create: the flow goes on to buildInstance and,
\* unless buildInstance fails, to Insert.
C10_FirewallAdvisory ==
    fwFinding \in {"cmdfail", "empty"} =>
        /\ fwWarnings = 1
        /\ pc # "firewall" /\ result # "err_firewall"
        /\ (pc = "done" /\ insertCalls = 0) => result = "err_build"
        /\ (pc = "done" /\ result # "err_build") => insertCalls = 1

C10_Witness == fwFinding = "empty" /\ fwWarnings = 1 /\ insertCalls = 1 /\ instanceCreated

\* C11: when the firewall listing of a proxied create returns no rule, the rule
\* devpod-allow-iap is created, so that a matching rule exists after the check.
C11_RuleCreated ==
    (fwFinding = "empty" /\ pc # "firewall") => fwRuleExists

\* C12 as stated: whenever create returned success, in either mode, a status
\* poll had returned Running.
C12_AsClaimed ==
    result = "ok" => (seenRunning /\ polls >= 1)

\* C12 amended: whenever a create without a public IP returned success, a
\* status poll had returned Running before; a create with a public IP returns
\* success as soon as Client.Create returned, without any status poll.
C12_RunningBeforeSuccess ==
    result = "ok" =>
        IF ~options.PublicIP
        THEN seenRunning /\ polls >= 1 /\ lastAnswer = "RUNNING"
        ELSE polls = 0 /\ ~seenRunning /\ probes = 0 /\ insertCalls = 1 /\ instanceCreated

C12_Witness ==
    result = "ok" /\ ~options.PublicIP /\ polls = 3 /\ lastAnswer = "RUNNING"

C15_FailureAborts ==
    /\ result = "err_create" => (polls = 0 /\ probes = 0 /\ descWrites = 0)
    /\ (insertCalls = 1 /\ ~instanceCreated /\ deleteCalls = 0) =>
            (pc = "done" /\ result = "err_create")
    /\ lastAnswer = "error" =>
            (pc = "done" /\ result = "err_status" /\ probes = 0 /\ descWrites = 0)

C15_Witness ==
    result = "err_status" /\ lastAnswer = "error" /\ polls = 2 /\ ~cancelled

\* C16: create never calls Client.Delete; after the status timeout the
\* instance it created is still there.
C16_NoDeleteOnTimeout ==
    /\ deleteCalls = 0
    /\ result = "err_timeout" => (instanceCreated /\ insertCalls = 1)

C16_Witness ==
    result = "err_timeout" /\ instanceCreated /\ deleteCalls = 0 /\ polls = maxAttempts

\* the reference forms the comments of normalizeNetworkID and
\* normalizeSubnetworkID list, matched against the whole reference
NoEmptyPart(s) == \A k \in 1..Len(s) : Len(s[k]) > 0

AcceptedNetwork(n) ==
    \/ Len(n) = 0
    \/ LET s == Split(n)
       IN /\ NoEmptyPart(s)
          /\ \/ Len(s) \in {1, 2}
             \/ /\ Len(s) = 5 /\ s[1] = <<"projects">>
                /\ s[3] = <<"global">> /\ s[4] = <<"networks">>

AcceptedSubnetwork(sn) ==
    \/ Len(TrimSpace(sn)) = 0
    \/ LET s == Split(TrimSpace(sn))
       IN /\ NoEmptyPart(s)
          /\ \/ Len(s) \in {1, 2, 3}
             \/ /\ Len(s) = 6 /\ s[1] = <<"projects">>
                /\ s[3] = <<"regions">> /\ s[5] = <<"subnetworks">>

\* C17: buildInstance returns an error for a disk size that is not a number
\* and for a network or subnet reference in none of the accepted forms, and
\* then builds no instance.
C17_MalformedRejected ==
    (pc # "build" /\ options.Zone = ZoneOK) =>
        /\ AtoiFails(options.DiskSize) => (result = "err_build" /\ ~instance.built)
        /\ (~AcceptedNetwork(options.Network) \/ ~AcceptedSubnetwork(options.Subnetwork)) =>
                (result = "err_build" /\ ~instance.built)

\* C18: the instance buildInstance returns has the access config exactly with
\* a public IP, the startup-script metadata entry exactly without one, and the
\* ssh-keys entry in both modes.
C18_ModeBlocks ==
    /\ pc = "create" => instance.built
    /\ instance.built =>
        /\ instance.AccessConfigs <=> options.PublicIP
        /\ ("startup-script" \in instance.MetadataKeys) <=> ~options.PublicIP
        /\ "ssh-keys" \in instance.MetadataKeys

C18_Witness ==
    /\ pc = "create" /\ instance.built /\ options.PublicIP
    /\ instance.AccessConfigs /\ instance.MetadataKeys = {"ssh-keys"}

\* C19: the maintenance policy is TERMINATE exactly for a machine type whose
\* first character is a, g or n and whose second character is a digit, and
\* MIGRATE for every other one, the empty and the upper-case ones included.
C19_MaintenancePolicy ==
    instance.built =>
        instance.OnHostMaintenance =
            IF /\ Len(options.MachineType) >= 2
               /\ options.MachineType[1] \in {"a", "g", "n"}
               /\ options.MachineType[2] \in Digits
            THEN "TERMINATE" ELSE "MIGRATE"

C19_Witness ==
    /\ instance.built /\ instance.OnHostMaintenance = "TERMINATE"
    /\ options.MachineType = <<"n", "1", "-", "s", "t", "d">>

\* C20: the full path, the region/name form and the bare name of one subnet
\* are all reduced to the bare name by the NAT preflight, and the preflight
\* returns the same for each of them against the same routers.
C20_FormsAgree ==
    \A k \in 1..Len(findings) :
        /\ findings[k].name = subject.name
        /\ findings[k].finding = findings[1].finding

C20_Witness ==
    /\ Len(findings) = 3 /\ findings[3].finding = "satisfied"
    /\ \A f \in 1..3 : \E k \in 1..3 : findings[k].form = f
    /\ subject.name = <<"sn">>
    /\ routers = <<[Nats |-> <<>>], [Nats |-> <<NatListSn>>]>>

\* a NAT applies to the name: all-subnets mode, or a subnet list with a
\* listed name that contains it
SomeRouterApplies(rs, name, upTo) ==
    \E k \in 1..upTo : \E n \in 1..Len(rs[k].Nats) :
        LET nat == rs[k].Nats[n]
        IN \/ nat.Mode = "ALL_SUBNETWORKS_ALL_IP_RANGES"
           \/ /\ nat.Mode = "LIST_OF_SUBNETWORKS"
              /\ \E x \in 1..Len(nat.Subnetworks) : Contains(nat.Subnetworks[x], name)

\* C21 as stated: CheckCloudNAT answers "satisfied" exactly when some router
\* of the region has an applying NAT. Violated when a listing call fails before
\* the applying router is returned.
C21_AsClaimed ==
    \A k \in 1..Len(findings) :
        findings[k].nat.has <=> SomeRouterApplies(routers, findings[k].name, Len(routers))

\* C21 (amended): CheckCloudNAT answers "satisfied" exactly when some router
\* returned by the enumeration before any failing listing call has a NAT in
\* all-subnets mode or in subnet-list mode with a listed name that contains the
\* target name (case-sensitive); when the enumeration completes without such a
\* router it answers "missing" without error; a failing listing call before
\* such a router is an error.
C21_SatisfiedExactly ==
    \A k \in 1..Len(findings) :
        LET f == findings[k]
            reach == IF listFailAt = 0 THEN Len(routers) ELSE listFailAt - 1
            applies == SomeRouterApplies(routers, f.name, reach)
        IN /\ f.nat.has <=> applies
           /\ f.nat.err <=> (~applies /\ listFailAt # 0)
           /\ (~applies /\ listFailAt = 0) => (~f.nat.has /\ ~f.nat.err)

C21_Witness ==
    /\ Len(findings) >= 1 /\ findings[1].nat.has /\ findings[1].name = <<"sn">>
    /\ routers = <<[Nats |-> <<NatListSn2>>]>>

C22_StatusMapping ==
    (statusOut # NoStatus /\ getAnswer.kind = "instance") =>
        LET w == getAnswer.word
        IN /\ w = "RUNNING" => statusOut = [status |-> "Running", err |-> FALSE]
           /\ w \in {"STOPPING", "SUSPENDING", "REPAIRING", "PROVISIONING", "STAGING"} =>
                    statusOut = [status |-> "Busy", err |-> FALSE]
           /\ w = "TERMINATED" => statusOut = [status |-> "Stopped", err |-> FALSE]
           /\ w \in {"SUSPENDED", "UNKNOWN", "", "(other)"} =>
                    (statusOut.err /\ statusOut.status \notin {"Running", "Busy", "Stopped"})

C22_Witness ==
    /\ getAnswer.kind = "instance" /\ getAnswer.raw = <<"\t", "Staging", "\n", " ">>
    /\ statusOut = [status |-> "Busy", err |-> FALSE]

\* the values of the lines of an ssh_config text that begin with a keyword
ValuesOf(text, key) ==
    { SubSeq(text[k], 3, Len(text[k])) :
        k \in { x \in 1..Len(text) : Len(text[x]) >= 2 /\ text[x][1] = key /\ text[x][2] = " " } }

\* a path names a file directly inside a folder
LiesIn(path, folder) ==
    LET d == IF Len(folder) > 0 /\ folder[Len(folder)] = "/"
             THEN SubSeq(folder, 1, Len(folder) - 1) ELSE folder
    IN /\ Len(path) > Len(d) + 1
       /\ SubSeq(path, 1, Len(d)) = d
       /\ path[Len(d) + 1] = "/"
       /\ \A k \in (Len(d) + 2)..Len(path) : path[k] # "/"

C24_DocumentedBackoff ==
    /\ pc = "bootDelay" => sleeping = 45
    /\ pc = "sleepProbe" => sleeping = docBackoff(i)
    /\ probes <= docProbeAttempts
    /\ timeoutWarnings > 0 => probes = docProbeAttempts

C27_DescriptorBeforeProbe ==
    probes > 0 => (descWrites >= 1 /\ descriptor = "written")

\* C28: a create whose context was cancelled during the probe loop does not
\* return success and does not write ssh_config.
C28_CancelInProbeAborts ==
    cancelledInProbe => (result # "ok" /\ descWrites = 0 /\ descriptor # "written")

\* C29: when the startup script has run, whether the devpod account was
\* there before or not, the account exists with passwordless sudo and its
\* authorized_keys holds the key of the ssh-keys metadata with mode 600.
C29_BootstrapEstablishes ==
    bootPc = "done" =>
        /\ remote.user
        /\ remote.sudoers = "NOPASSWD"
        /\ remote.authKeys = <<publicKey>>
        /\ remote.authMode = "600"

\* C30: with a public IP, command dials the external NAT address of the
\* instance on port 22 and makes one attempt: a failure of the dial or of the
\* run is what command returns, with no sleep and no second attempt.
C30_DirectSingleAttempt ==
    options.PublicIP =>
        /\ cmdAttempts <= 1 /\ cmdSleeps = 0
        /\ cmdAttempts = 1 =>
            /\ cmdPc = "done"
            /\ ~natAddr.isNil /\ dialed = natAddr.path \o <<":", "22">>
            /\ cmdResult \in {"ok", "err_ssh_client", "err_run"}
            /\ (~chanPlan[1] \/ cancelled) => cmdResult \in {"err_ssh_client", "err_run"}
        /\ cmdAttempts = 0 => dialed = <<>>

C30_Witness ==
    /\ options.PublicIP /\ cmdAttempts = 1 /\ cmdPc = "done" /\ cmdResult = "err_run"
    /\ ~chanPlan[1] /\ chanPlan[2] /\ ~cancelled
    /\ dialed = <<"35.9.9.9", ":", "22">>

\* C31: no step of a command invocation, successful or failed, changes
\* ssh_config: its state, the count of its writes, its text and the set of
\* flows that wrote it stay as they were.
C31_CommandKeepsDescriptor ==
    [][/\ descriptor' = descriptor /\ descWrites' = descWrites /\ sshConfig' = sshConfig
       /\ \A f \in Flows : writers'[SshConfigPath(f)] = writers[SshConfigPath(f)]]_vars

C31_Witness ==
    /\ cmdPc = "done" /\ cmdResult = "err_ssh" /\ cmdAttempts = 1
    /\ descriptor = "written" /\ ~options.PublicIP /\ ~cancelled

\* C32: ssh_config, once written by create, has mode 0600; when the write
\* fails create returns the write error, not success, and the instance it
\* created is neither deleted nor otherwise rolled back.
C32_WriteFailureFatal ==
    LET attempted == Self \in writers[SshConfigPath(Self)]
    IN /\ descriptor = "written" => descMode = "0600"
       /\ (attempted /\ descWrites = 0) =>
            /\ pc = "done" /\ result = "err_write"
            /\ instanceCreated /\ insertCalls = 1 /\ deleteCalls = 0
       /\ result = "err_write" => (attempted /\ descWrites = 0 /\ descriptor # "written")
       /\ (attempted /\ descWrites = 1) => result = "ok"

C32_Witness ==
    /\ pc = "done" /\ result = "err_write" /\ descriptor = "absent" /\ descMode = "none"
    /\ instanceCreated /\ deleteCalls = 0 /\ timeoutWarnings = 1

\* C33: a listing call that fails makes CheckCloudNAT return (false, error)
\* and the preflight return the "failed to check" error; an enumeration that
\* ends without an applying NAT makes it return (false, nil) and the preflight
\* return the "not configured" error; the two errors differ and neither
\* stands for the other case.
C33_ListingFailureDistinct ==
    \A k \in 1..Len(findings) :
        LET f == findings[k]
        IN /\ f.nat.err => ~f.nat.has
           /\ f.finding # "panic" =>
                /\ f.nat.err <=> f.finding = "err_nat_check"
                /\ (~f.nat.err /\ ~f.nat.has) <=> f.finding = "err_nat_missing"
           /\ f.finding = "err_nat_check" => listFailAt # 0
           /\ f.finding = "err_nat_missing" => listFailAt = 0

C33_Witness ==
    /\ Len(findings) = 2
    /\ findings[1].nat = [has |-> FALSE, err |-> TRUE] /\ findings[1].finding = "err_nat_check"
    /\ listFailAt = 2 /\ Len(routers) = 2

\* C34: on a 404 Client.Get returns a nil instance and no error and
\* Client.Status returns NotFound and no error; on every other failure of the
\* Get call both return an error; Status returns NotFound without an error in
\* no other case.
C34_NotFoundIsNotAnError ==
    LET g == ClientGet(getAnswer)
    IN /\ getAnswer.kind = "notfound" => (g.isNil /\ ~g.err)
       /\ getAnswer.kind = "error" => (g.isNil /\ g.err)
       /\ getAnswer.kind = "instance" => (~g.isNil /\ ~g.err)
       /\ statusOut # NoStatus =>
            /\ getAnswer.kind = "notfound" <=> statusOut = [status |-> "NotFound", err |-> FALSE]
            /\ getAnswer.kind = "error" => statusOut = [status |-> "NotFound", err |-> TRUE]

C34_Witness ==
    getAnswer.kind = "notfound" /\ statusOut = [status |-> "NotFound", err |-> FALSE]

C36_NoChannelBeforeChecks ==
    LET untouched == /\ cmdAttempts = 0 /\ cmdSleeps = 0 /\ dialed = <<>>
                     /\ Self \notin readers[SshConfigPath(Self)]
    IN /\ command = <<>> =>
            /\ untouched /\ lastAnswer = "none"
            /\ cmdPc = "done" => cmdResult = "err_no_command"
       /\ lastAnswer = "notfound" =>
            (untouched /\ cmdPc = "done" /\ cmdResult = "err_not_exist")
       /\ (options.PublicIP /\ lastAnswer = "RUNNING" /\ natAddr.isNil) =>
            (untouched /\ cmdPc = "done" /\ cmdResult = "err_no_nat_ip")
       /\ cmdResult \in {"err_no_command", "err_not_exist", "err_no_nat_ip"} => untouched

C36_Witness ==
    /\ cmdPc = "done" /\ cmdResult = "err_not_exist" /\ lastAnswer = "notfound"
    /\ ~options.PublicIP /\ descriptor = "written" /\ chanPlan[1]
    /\ cmdAttempts = 0 /\ ~cancelled

\* C37: whatever the zone, a hyphen in it or not, the region derivation of the
\* NAT preflight and of the subnet normalization gives a region or an error
\* return: create never ends in a crash.
C37_ZoneNeverCrashes ==
    /\ natFinding # "panic"
    /\ result # "panic"

====
